---- MODULE Spec2Model ----
(***************************************************************************)
(* KellerBot: the message catalog (server/message_manager.py), the bot     *)
(* controller and its polling loop (server/bot_controller.py), the GroupMe *)
(* poll cursor (groupme/groupme_interface.py) and the generator's fallback *)
(* (message_gen/message_generator.py), as one state machine.               *)
(*                                                                         *)
(* The program runs on one asyncio event loop: code between two awaits is  *)
(* one atomic step.  poll_new_messages and send_message are synchronous    *)
(* (requests), so a whole polling cycle up to its sleep is one step, and   *)
(* the tasks it creates with asyncio.create_task start afterwards, in      *)
(* creation order.                                                         *)
(*                                                                         *)
(* Numbers that are floats in the program (probabilities, samples) are     *)
(* integers in thousandths here.                                           *)
(***************************************************************************)
EXTENDS Integers, Sequences, FiniteSets, TLC

(* ---------------- bounds of the model ---------------- *)
\* Catalog entries, and the widest batch, where batches are followed call by call.
MaxBatches == 1
MaxTries == 2
\* Catalog entries, clock readings and deliveries where the operator acts on the catalog.
MaxMessages == 1
MaxTime == 2
MaxSends == 1
\* Group messages and catalog entries where the polling loop is followed.
MaxGroupMsgs == 2
MaxReplies == 1
\* Random batches and clock readings where the loop is followed with its batches.
MaxLoopBatches == 1
MaxLoopTime == 3
\* Entities of the tasks of one cycle, and the clock while they start.
MaxCycleTasks == 2
MaxCycleTime == 3
\* Batches, posts in the group and clock readings where the daily counter is followed.
MaxDailyBatches == 1
MaxDailyPosts == 1
MaxDailyTime == 2
\* Batches in flight at the same time.
MaxConcurrent == 2
\* Catalog entries where the two triggers are followed.
MaxTriggerBatches == 2
\* Messages posted between two polls, and catalog entries, where the order of the
\* reply decisions is followed.
MaxOrderPosts == 2
MaxOrderBatches == 2
\* start and stop: loop tasks not yet finished, clock
MaxLoops == 2
MaxStartStopTime == 3
\* cleanup: catalog entries, clock, deliveries
MaxCleanupMessages == 1
MaxCleanupTime == 3
MaxCleanupSends == 1
\* Batches launched where the count of generating entities is followed.
MaxInFlight == 2

(* ---------------- values ---------------- *)
None == "None"
Falsy(x) == x = None \/ x = ""

Min(a, b) == IF a < b THEN a ELSE b
Max(a, b) == IF a > b THEN a ELSE b

RECURSIVE SeqMax(_)
SeqMax(s) == IF Len(s) = 1 THEN s[1] ELSE Max(s[1], SeqMax(Tail(s)))

RECURSIVE Reverse(_)
Reverse(s) == IF s = <<>> THEN <<>> ELSE Append(Reverse(Tail(s)), Head(s))

\* Python's range(n): empty for n <= 0.
range(n) == 1..n

\* Python's `sub in text` on strings held as tuples of characters.
Contains(text, sub) ==
    \E i \in 0..(Len(text) - Len(sub)) : SubSeq(text, i + 1, i + Len(sub)) = sub

MessageTypes == {"random", "reply", "introduction", "manual"}
\* Texts the generation backend answers with (response.output_text).
Texts == {"A"}
\* Contents of message_gen/common_phrases.txt: missing/empty, or some phrases.
PhraseFiles == {<<>>, <<"natty">>}
NoPhrasesError == "No common phrases found. Please add phrases to common_phrases.txt"

\* The authenticated user (the bot) and another member of the group.
current_user_id == "bot"
UserIds == {"bot", "u1"}
GroupId == "g1"
\* Incoming message texts.
Keller == <<"K", "e", "l", "l", "e", "r">>
keller == <<"k", "e", "l", "l", "e", "r">>
KELLER == <<"K", "E", "L", "L", "E", "R">>
Hi == <<"h", "i">>
IncomingTexts == {Hi, <<"o">> \o Keller, KELLER}
LikeCounts == {0, 4}
\* random.random() in thousandths: [0, 1).
Samples == {0, 500, 999}

VARIABLES
    messages,                  \* MessageManager.messages: the catalog
    batches,                   \* per catalog entry: its generate_* coroutine and its tasks
    spawned,                   \* tasks made by asyncio.create_task that have not started
    config,                    \* MessageManager.config
    config_file,               \* the file at config_path: <<>> if missing, else <<document>>
    common_phrases,            \* MessageGenerator.common_phrases
    now,                       \* the clock (time.time(), datetime.now())
    messages_per_day,          \* MessageManager.messages_per_day
    last_random_message_time,  \* MessageManager.last_random_message_time
    running,                   \* BotController.running
    polling_task,              \* BotController.polling_task: where the loop is
    loop_tasks,                \* the _polling_loop tasks that have not finished, oldest first
    bot_group_id,              \* GroupMeInterface.bot_group_id
    last_message_time,         \* GroupMeInterface.last_message_time: the poll cursor
    group_messages,            \* the group's messages at GroupMe, oldest first
    sent_log,                  \* what GroupMe accepted from send_message
    polls,                     \* history: the polls made so far
    lastOp                     \* the last step and what it returned to its caller

vars == <<messages, batches, spawned, config, config_file, common_phrases, now,
          messages_per_day, last_random_message_time, running, polling_task, loop_tasks,
          bot_group_id, last_message_time, group_messages, sent_log, polls, lastOp>>

catalogVars == <<messages, batches>>
counterVars == <<messages_per_day, last_random_message_time>>
configVars == <<config, config_file>>
loopVars == <<running, polling_task, loop_tasks>>
groupmeVars == <<bot_group_id, last_message_time, group_messages, sent_log, polls>>

\* Python's str(bool): what a handler answered.
Bool(b) == IF b THEN "True" ELSE "False"

\* The handler that ran, its arguments and its answer.
Op(op, args, ret) == [op |-> op, args |-> args, ret |-> ret]
\* A step that answers no caller.
NoOp == Op("none", <<>>, "none")

(* ---------------- MessageObject ---------------- *)
\* id = str(int(time.time() * 1000)): the clock reading at construction.
MessageObject(message_type, reply_to_id) ==
    [id |-> now, message_type |-> message_type, reply_to_id |-> reply_to_id,
     generated_messages |-> <<>>, selected_message |-> None,
     sent |-> FALSE, deleted |-> FALSE, generating |-> FALSE]

add_generated_message(m, message) ==
    [m EXCEPT !.generated_messages = Append(@, message)]

\* A start_generation that leaves the flag as it is.
start_generation_skipped(m) == m

start_generation(m) == [m EXCEPT !.generating = TRUE]

\* A batch end that leaves the flag as it is.
stop_generation_skipped(m) == m

stop_generation(m) == [m EXCEPT !.generating = FALSE]

\* A select_message without the lower bound: Python's negative index picks from the end.
select_message_negative(m, message_index) ==
    LET n == Len(m.generated_messages) IN
    IF message_index < n /\ message_index >= -n
    THEN [ret |-> TRUE,
          obj |-> [m EXCEPT !.selected_message =
                      m.generated_messages[IF message_index >= 0 THEN message_index + 1
                                           ELSE n + message_index + 1]]]
    ELSE [ret |-> FALSE, obj |-> m]

\* A select_message that accepts index 0 before any candidate exists and records an
\* empty text.
select_message_before_candidates(m, message_index) ==
    IF 0 <= message_index /\ message_index < Max(Len(m.generated_messages), 1)
    THEN [ret |-> TRUE,
          obj |-> [m EXCEPT !.selected_message =
                      IF m.generated_messages = <<>> THEN ""
                      ELSE m.generated_messages[message_index + 1]]]
    ELSE [ret |-> FALSE, obj |-> m]

\* Returns the value returned and the object afterwards.
select_message(m, message_index) ==
    IF 0 <= message_index /\ message_index < Len(m.generated_messages)
    THEN [ret |-> TRUE,
          obj |-> [m EXCEPT !.selected_message = m.generated_messages[message_index + 1]]]
    ELSE [ret |-> FALSE, obj |-> m]

(* ---------------- MessageManager: configuration ---------------- *)
ConfigKeys == {"random_messages_per_day", "reply_chance_per_like", "minimum_reply_chance",
               "message_generation_tries", "polling_interval_seconds"}

\* load_config's document when the file is missing (probabilities in thousandths).
DefaultConfig ==
    [random_messages_per_day |-> 5, reply_chance_per_like |-> 300,
     minimum_reply_chance |-> 10, message_generation_tries |-> 3,
     polling_interval_seconds |-> 120]


\* config.json when it exists: documents an operator may have saved.
ConfigDocs ==
    {[random_messages_per_day |-> r, reply_chance_per_like |-> 300,
      minimum_reply_chance |-> 10, message_generation_tries |-> t,
      polling_interval_seconds |-> 120] : r \in {5, 720}, t \in 0..MaxTries}

\* A validation that forgets the upper limit.
polling_interval_rejected_low_only(new_config) ==
    /\ "polling_interval_seconds" \in DOMAIN new_config
    /\ new_config["polling_interval_seconds"] <= 0

\* update_config's validation: TRUE when it raises ValueError.
polling_interval_rejected(new_config) ==
    /\ "polling_interval_seconds" \in DOMAIN new_config
    /\ \/ new_config["polling_interval_seconds"] <= 0
       \/ new_config["polling_interval_seconds"] > 3600

\* dict.update
dict_update(d, new) ==
    [k \in DOMAIN d \cup DOMAIN new |-> IF k \in DOMAIN new THEN new[k] ELSE d[k]]

\* update_config (app.py turns the ValueError into HTTP 400).
update_config(new_config) ==
    IF polling_interval_rejected(new_config)
    THEN /\ UNCHANGED configVars
         /\ lastOp' = Op("update_config", <<new_config>>, "raised")
    ELSE /\ config' = dict_update(config, new_config)
         /\ config_file' = <<config'>>
         /\ lastOp' = Op("update_config", <<new_config>>, "ok")

UpdateConfig(new_config) ==
    /\ update_config(new_config)
    /\ UNCHANGED <<catalogVars, spawned, common_phrases, now, counterVars, loopVars,
                   groupmeVars>>

\* POST /api/config while config_path cannot be opened for writing: the validation and
\* self.config.update run as always, then save_config raises OSError (97) and app.py
\* answers HTTP 400 as it does for a rejected interval; the file stays as it was.
UpdateConfigUnwritable(new_config) ==
    /\ IF polling_interval_rejected(new_config)
       THEN UNCHANGED configVars
       ELSE config' = dict_update(config, new_config) /\ UNCHANGED config_file
    /\ lastOp' = Op("update_config", <<new_config>>,
                    IF polling_interval_rejected(new_config) THEN "raised"
                    ELSE "save_raised")
    /\ UNCHANGED <<catalogVars, spawned, common_phrases, now, counterVars, loopVars,
                   groupmeVars>>

(* ---------------- MessageGenerator ---------------- *)
\* One call of generate_message / generate_reply / generate_introduction.
\* history: calls counts how many times the call was issued.
NewTask ==
    [done |-> FALSE, raised |-> FALSE, val |-> None, backend |-> "none", rank |-> 0,
     calls |-> 0]

\* What the call resolves with: the backend answers with a text, or the backend call
\* fails and the except branch answers with random.choice(common_phrases); with no
\* phrases loaded the call raises ValueError before reaching the backend.
Outcomes ==
    IF common_phrases = <<>>
    THEN {[raised |-> TRUE, val |-> NoPhrasesError, backend |-> "none"]}
    ELSE {[raised |-> FALSE, val |-> t, backend |-> "ok"] : t \in Texts}
         \cup {[raised |-> FALSE, val |-> common_phrases[i], backend |-> "failed"] :
                 i \in DOMAIN common_phrases}

\* A call that is issued a second time when its first try did not get a text.
generate_message_retried(task, outcome, rank) ==
    IF outcome.backend # "ok" /\ task.calls = 0
    THEN [task EXCEPT !.calls = 1]
    ELSE [done |-> TRUE, raised |-> outcome.raised, val |-> outcome.val,
          backend |-> outcome.backend, rank |-> rank, calls |-> task.calls + 1]

generate_message(task, outcome, rank) ==
    [done |-> TRUE, raised |-> outcome.raised, val |-> outcome.val,
     backend |-> outcome.backend, rank |-> rank, calls |-> task.calls + 1]

(* ---------------- MessageManager: batches ---------------- *)
\* f"Error generating {message_type}: {message}"
ErrorMsg(message_type, exc) == "Error generating " \o message_type \o ": " \o exc

ErrorMarkers == {ErrorMsg(t, NoPhrasesError) : t \in MessageTypes}

\* Results ordered by the moment each call resolved.
RECURSIVE gather_by_completion(_)
gather_by_completion(tasks) ==
    IF tasks = <<>> THEN <<>>
    ELSE LET i == CHOOSE j \in DOMAIN tasks :
                     \A l \in DOMAIN tasks : tasks[j].rank <= tasks[l].rank
             rest == [l \in 1..(Len(tasks) - 1) |-> IF l < i THEN tasks[l] ELSE tasks[l + 1]]
         IN <<tasks[i]>> \o gather_by_completion(rest)

\* asyncio.gather(*tasks, return_exceptions=True): the results in the order of its
\* arguments.
gather(tasks) == tasks

\* A gather that returns as soon as one call has resolved.
gather_ready_first(tasks) == tasks = <<>> \/ \E i \in DOMAIN tasks : tasks[i].done

\* gather's future is done when every call has resolved.
gather_ready(tasks) == \A i \in DOMAIN tasks : tasks[i].done

\* A result loop that skips the failed calls.
RECURSIVE process_results_drop_errors(_, _, _)
process_results_drop_errors(m, results, message_type) ==
    IF results = <<>> THEN m
    ELSE process_results_drop_errors(
             IF Head(results).raised THEN m
             ELSE add_generated_message(m, Head(results).val),
             Tail(results), message_type)

\* The for loop of _execute_generation_tasks over gather's results.
RECURSIVE process_results(_, _, _)
process_results(m, results, message_type) ==
    IF results = <<>> THEN m
    ELSE process_results(
             IF Head(results).raised
             THEN add_generated_message(m, ErrorMsg(message_type, Head(results).val))
             ELSE add_generated_message(m, Head(results).val),
             Tail(results), message_type)

_execute_generation_tasks(m, tasks, message_type) ==
    process_results(m, gather(tasks), message_type)

\* MessageObject(...); start_generation(); self.messages.append(...); the tasks list;
\* then the coroutine waits in gather.
launch(message_type, reply_to_id) ==
    /\ messages' = Append(messages, start_generation(MessageObject(message_type, reply_to_id)))
    /\ batches' = Append(batches,
                    [pc |-> "gather", width |-> config["message_generation_tries"],
                     tasks |-> [i \in range(config["message_generation_tries"]) |-> NewTask],
                     in_launch_order |-> TRUE, completed_running |-> TRUE])


\* One of the batch's calls resolves (message_generator.py, generate_message).
AttemptResolve(k, i, outcome) ==
    /\ k \in DOMAIN batches
    /\ batches[k].pc = "gather"
    /\ i \in DOMAIN batches[k].tasks
    /\ ~batches[k].tasks[i].done
    /\ outcome \in Outcomes
    /\ LET rank == 1 + Cardinality({j \in DOMAIN batches[k].tasks : batches[k].tasks[j].done})
       IN batches' = [batches EXCEPT ![k].tasks[i] = generate_message(@, outcome, rank)]
    /\ lastOp' = NoOp
    /\ UNCHANGED <<messages, spawned, configVars, common_phrases, now, counterVars,
                   loopVars, groupmeVars>>

\* A batch of every kind counts as a random message of the day.
counts_every_type(message_type) == TRUE

\* Only generate_random_message (191-192) touches the daily counter and its timestamp.
counts_toward_daily(message_type) == message_type = "random"

\* An increment split around an await: the write of a batch that completes while
\* another random batch is in flight is overwritten by that batch's stale value.
incremented_unless_concurrent(k) ==
    IF \E j \in DOMAIN batches :
           j # k /\ batches[j].pc = "gather" /\ messages[j].message_type = "random"
    THEN messages_per_day
    ELSE messages_per_day + 1

\* generate_random_message, 191: self.messages_per_day += 1, read and written after
\* the await, in one step of the event loop.
incremented_messages_per_day(k) == messages_per_day + 1

\* gather returns; the coroutine runs to its end: the result loop, stop_generation,
\* and for a random message the daily counter (generate_random_message, 190-192).
\* history: completed_running records whether the scheduler was running at that moment.
BatchComplete(k) ==
    /\ k \in DOMAIN batches
    /\ batches[k].pc = "gather"
    /\ gather_ready(batches[k].tasks)
    /\ messages' = [messages EXCEPT ![k] =
           stop_generation(_execute_generation_tasks(@, batches[k].tasks, @.message_type))]
    /\ batches' = [batches EXCEPT ![k] =
           [pc |-> "done", width |-> @.width, tasks |-> <<>>,
            in_launch_order |-> \A i, j \in DOMAIN @.tasks :
                                    i < j => @.tasks[i].rank < @.tasks[j].rank,
            completed_running |-> running]]
    /\ IF counts_toward_daily(messages[k].message_type)
       THEN /\ messages_per_day' = incremented_messages_per_day(k)
            /\ last_random_message_time' = now
       ELSE UNCHANGED counterVars
    /\ lastOp' = NoOp
    /\ UNCHANGED <<spawned, configVars, common_phrases, now, loopVars, groupmeVars>>

\* POST /api/generate/test: generate_manual_message up to its await.
GenerateManualMessage ==
    /\ launch("manual", None)
    /\ lastOp' = NoOp
    /\ UNCHANGED <<spawned, configVars, common_phrases, now, counterVars, loopVars,
                   groupmeVars>>

\* POST /api/generate/introduction: generate_introduction_message up to its await.
GenerateIntroductionMessage ==
    /\ launch("introduction", None)
    /\ lastOp' = NoOp
    /\ UNCHANGED <<spawned, configVars, common_phrases, now, counterVars, loopVars,
                   groupmeVars>>

(* ---------------- MessageManager: the catalog ---------------- *)
\* Index of the first message with this id, 0 for None.
get_message_by_id(message_id) ==
    IF \E k \in DOMAIN messages : messages[k].id = message_id
    THEN CHOOSE k \in DOMAIN messages :
             /\ messages[k].id = message_id
             /\ \A j \in DOMAIN messages : messages[j].id = message_id => k <= j
    ELSE 0

get_pending_messages == SelectSeq(messages, LAMBDA m : ~m.sent /\ ~m.deleted)

\* A count of the pending entities instead of the generating ones.
get_generating_messages_count_pending == Len(get_pending_messages)

get_generating_messages_count == Len(SelectSeq(messages, LAMBDA m : m.generating))

mark_message_sent(message_id) ==
    LET k == get_message_by_id(message_id) IN
    IF k # 0 THEN [messages EXCEPT ![k].sent = TRUE] ELSE messages

delete_message(message_id) ==
    LET k == get_message_by_id(message_id) IN
    IF k # 0 THEN [messages EXCEPT ![k].deleted = TRUE] ELSE messages

(* ---------------- GroupMeInterface.send_message ---------------- *)
\* str.strip() leaves nothing of these.
BlankTexts == {"", " "}

\* A send_message that does not notice a failed request.
send_message_raises_unless_posted(text, request_ok) ==
    bot_group_id = None \/ text \in BlankTexts

\* TRUE when send_message raises ValueError: no group set, a blank text, or the
\* request failed.
send_message_raises(text, request_ok) ==
    bot_group_id = None \/ text \in BlankTexts \/ ~request_ok

(* ---------------- BotController: the operator's actions ---------------- *)
\* A send that only asks for the message to exist.
can_send_unselected(k) == k # 0

\* The guard of send_selected_message (138).
can_send(k) == k # 0 /\ ~Falsy(messages[k].selected_message)

\* POST /api/messages/{id}/send
SendSelectedMessage(message_id, request_ok) ==
    LET k == get_message_by_id(message_id) IN
    /\ IF ~can_send(k)
       THEN /\ UNCHANGED <<messages, sent_log>>
            /\ lastOp' = Op("send", <<message_id>>, "False")
       ELSE IF send_message_raises(messages[k].selected_message, request_ok)
       THEN /\ UNCHANGED <<messages, sent_log>>
            /\ lastOp' = Op("send", <<message_id>>, "False")
       ELSE /\ sent_log' = Append(sent_log, [text |-> messages[k].selected_message,
                                             reply_to_id |-> messages[k].reply_to_id,
                                             message |-> k])
            /\ messages' = mark_message_sent(message_id)
            /\ lastOp' = Op("send", <<message_id>>, "True")
    /\ UNCHANGED <<batches, spawned, configVars, common_phrases, now, counterVars,
                   loopVars, bot_group_id, last_message_time, group_messages, polls>>

\* POST /api/messages/{id}/select
SelectMessageOption(message_id, option_index) ==
    LET k == get_message_by_id(message_id) IN
    /\ IF k # 0
       THEN /\ messages' = [messages EXCEPT ![k] = select_message(@, option_index).obj]
            /\ lastOp' = Op("select", <<message_id, option_index>>, Bool(select_message(messages[k], option_index).ret))
       ELSE /\ UNCHANGED messages
            /\ lastOp' = Op("select", <<message_id, option_index>>, "False")
    /\ UNCHANGED <<batches, spawned, configVars, common_phrases, now, counterVars,
                   loopVars, groupmeVars>>

\* POST /api/messages/{id}/delete (always answers success)
DeleteMessage(message_id) ==
    /\ messages' = delete_message(message_id)
    /\ lastOp' = Op("delete", <<message_id>>, "True")
    /\ UNCHANGED <<batches, spawned, configVars, common_phrases, now, counterVars,
                   loopVars, groupmeVars>>

\* Time passes.
Tick ==
    /\ now' = now + 1
    /\ lastOp' = NoOp
    /\ UNCHANGED <<catalogVars, spawned, configVars, common_phrases, counterVars,
                   loopVars, groupmeVars>>


(* ---------------- GroupMeInterface: polling ---------------- *)
\* Another member, or the bot's own account, posts in the group; GroupMe stamps it.
PostMessage(user_id, text, likes) ==
    /\ group_messages' = Append(group_messages,
           [id |-> "m" \o ToString(Len(group_messages) + 1), text |-> text,
            user_id |-> user_id, created_at |-> now, likes |-> likes])
    /\ lastOp' = NoOp
    /\ UNCHANGED <<catalogVars, spawned, configVars, common_phrases, now, counterVars,
                   loopVars, bot_group_id, last_message_time, sent_log, polls>>

\* GET /groups/{id}/messages: GroupMe answers newest first.
response == Reverse(group_messages)

\* A poll that never takes itself for the first one.
first_run_never == FALSE

\* poll_new_messages, 117
first_run == last_message_time = 0

\* A poll that takes no message for the bot's own.
from_current_user_never(msg) == FALSE

\* poll_new_messages, 123: msg.get('user_id') != self.current_user_id
from_current_user(msg) == msg.user_id = current_user_id

message_info(msg) ==
    [id |-> msg.id, text |-> msg.text, likes |-> msg.likes, username |-> msg.user_id,
     created_at |-> msg.created_at]

\* poll_new_messages, 118-136: newer than the cursor and not from the bot itself.
new_messages ==
    LET newer == SelectSeq(response, LAMBDA msg : /\ msg.created_at > last_message_time
                                                 /\ ~from_current_user(msg))
    IN [i \in DOMAIN newer |-> message_info(newer[i])]

\* poll_new_messages, 138-145: the cursor afterwards and the list returned.
poll_new_messages ==
    [last_message_time |->
         IF new_messages # <<>>
         THEN SeqMax([i \in DOMAIN new_messages |-> new_messages[i].created_at])
         ELSE last_message_time,
     ret |-> IF first_run THEN <<>> ELSE new_messages]

\* POST /api/bot/server
SetBotServer(group_id) ==
    /\ bot_group_id' = group_id
    /\ last_message_time' = 0
    /\ lastOp' = Op("set_bot_server", <<>>, "True")
    /\ UNCHANGED <<catalogVars, spawned, configVars, common_phrases, now, counterVars,
                   loopVars, group_messages, sent_log, polls>>

(* ---------------- MessageManager: triggers ---------------- *)
SecondsPerDay == 24 * 60 * 60
\* One day on the model's clock.
DayLen == 2

\* should_send_random_message, 123: (now - last_random_message_time).days >= 1
new_day == now - last_random_message_time >= DayLen

\* A trigger whose probability is capped just below one.
should_send_random_message_capped(sample) ==
    sample * SecondsPerDay <
        Min(config["random_messages_per_day"] * config["polling_interval_seconds"] * 1000,
            999 * SecondsPerDay)

\* should_send_random_message, 128-136: sample < target / (seconds_per_day / interval),
\* with the sample in thousandths and both sides multiplied out.
should_send_random_message(sample) ==
    sample * SecondsPerDay <
        config["random_messages_per_day"] * config["polling_interval_seconds"] * 1000

\* generate_reply_message, 201-208, in thousandths.
reply_probability(original_message, likes) ==
    LET base == Min(config["reply_chance_per_like"] * likes, 1000)
        boosted == IF Contains(original_message, Keller) \/ Contains(original_message, keller)
                   THEN base + 1000 ELSE base
    IN IF boosted < config["minimum_reply_chance"]
       THEN config["minimum_reply_chance"] ELSE boosted

\* A decision that also skips the reply when the sample equals the probability.
reply_skipped_at_equal(sample, original_message, likes) ==
    sample >= reply_probability(original_message, likes)

\* generate_reply_message, 212: random.random() > reply_probability returns None.
reply_skipped(sample, original_message, likes) ==
    sample > reply_probability(original_message, likes)

(* ---------------- BotController: the polling loop ---------------- *)
reply_task(msg) ==
    [fn |-> "reply", reply_to_id |-> msg.id, original_message |-> msg.text,
     likes |-> msg.likes]

random_task == [fn |-> "random", reply_to_id |-> None, original_message |-> <<>>, likes |-> 0]

\* The random tasks among those a cycle created.
random_tasks == SelectSeq(spawned, LAMBDA task : task.fn = "random")

\* _polling_loop, 64 and 76: the sleep after a cycle.  _process_polling_cycle catches
\* every exception itself (109), so the loop's own except (81-84) is not reached by a
\* failed fetch.
sleep_seconds(raised) == config["polling_interval_seconds"]

\* A loop that ends when its cycle raised.
polling_task_ends_on_error(raised) == IF raised THEN "ended" ELSE "sleeping"

\* _polling_loop, 61-84: after a cycle, failed or not, the loop is in its sleep.
polling_task_after_cycle(raised) == "sleeping"

\* A loop that awaits the batches it has launched.
awaits_generation_batches == \E k \in DOMAIN batches : batches[k].pc = "gather"

\* _process_polling_cycle, 103, and _process_incoming_message, 127: the batches are
\* handed to asyncio.create_task and never awaited by the loop.
awaits_generation == FALSE

\* A trigger evaluated for every message fetched.
trigger_evaluations_per_message(fetched) == Len(fetched)

\* _process_polling_cycle, 100: should_send_random_message is called once, after the
\* for loop over the messages fetched.
trigger_evaluations(fetched) == 1

\* history: how many polls were made (from 2 on the count alternates between 2 and 3),
\* what the group held when the first one was made, what the last one returned or that
\* it raised, how often the random trigger was evaluated in that cycle, how long the
\* loop sleeps after it, when the daily counter was last reset, whether a batch
\* was waiting for its calls when the cycle ran, and the configuration it ran under.
record_poll(ret, raised, evaluations) ==
    [count |-> IF polls.count < 3 THEN polls.count + 1 ELSE 2,
     preexisting |-> IF polls.count = 0
                     THEN {group_messages[i].id : i \in DOMAIN group_messages}
                     ELSE polls.preexisting,
     ret |-> ret, raised |-> raised, evaluations |-> evaluations,
     slept |-> sleep_seconds(raised),
     reset_at |-> IF ~raised /\ new_day THEN now ELSE polls.reset_at,
     in_flight |-> \E k \in DOMAIN batches : batches[k].pc = "gather",
     config |-> config]

\* _process_polling_cycle: the fetch, a reply task for every message fetched, the
\* daily reset and the random trigger.
_process_polling_cycle(request_ok, sample) ==
    /\ IF bot_group_id = None \/ ~request_ok
       THEN \* poll_new_messages raises; the except at 109 ends the cycle
            /\ polls' = record_poll(<<>>, TRUE, 0)
            /\ UNCHANGED <<last_message_time, spawned, counterVars>>
       ELSE /\ polls' = record_poll(poll_new_messages.ret, FALSE,
                                    trigger_evaluations(poll_new_messages.ret))
            /\ last_message_time' = poll_new_messages.last_message_time
            /\ IF new_day
               THEN messages_per_day' = 0 /\ last_random_message_time' = now
               ELSE UNCHANGED counterVars
            /\ spawned' = [i \in DOMAIN poll_new_messages.ret |->
                              reply_task(poll_new_messages.ret[i])]
                          \o (IF should_send_random_message(sample)
                              THEN [i \in 1..trigger_evaluations(poll_new_messages.ret) |->
                                       random_task]
                              ELSE <<>>)
    /\ UNCHANGED <<catalogVars, configVars, common_phrases, now, running, bot_group_id,
                   group_messages, sent_log>>

\* One iteration of _polling_loop by the task self.polling_task refers to:
\* _process_polling_cycle, then the loop sleeps.
\* The tasks of the previous cycle have started by then (spawned is empty).
PollingCycle(request_ok, sample) ==
    /\ running
    /\ polling_task \in {"created", "sleeping"}
    /\ spawned = <<>>
    /\ ~awaits_generation
    /\ _process_polling_cycle(request_ok, sample)
    /\ polling_task' = polling_task_after_cycle(bot_group_id = None \/ ~request_ok)
    /\ lastOp' = NoOp
    /\ UNCHANGED loop_tasks

\* An event loop that starts the newest task first.
newest_task == spawned[Len(spawned)]

\* asyncio runs the tasks made by create_task (103, 127) in the order they were made.
next_task == Head(spawned)

\* The first step of a task made by asyncio.create_task: generate_random_message or
\* generate_reply_message up to its await (or to its return None).
StartTask(sample) ==
    /\ spawned # <<>>
    /\ spawned' = Tail(spawned)
    /\ LET task == next_task IN
       IF task.fn = "reply" /\ reply_skipped(sample, task.original_message, task.likes)
       THEN UNCHANGED catalogVars
       ELSE launch(task.fn, task.reply_to_id)
    /\ lastOp' = NoOp
    /\ UNCHANGED <<configVars, common_phrases, now, counterVars, loopVars, groupmeVars>>

\* A start_polling without its check.
already_running_unchecked == FALSE

\* start_polling, 31
already_running == running

\* start_polling
StartPolling ==
    /\ IF already_running
       THEN UNCHANGED loopVars
       ELSE /\ running' = TRUE
            /\ polling_task' = "created"
            /\ loop_tasks' = Append(loop_tasks, "live")
    /\ lastOp' = Op("start_polling", <<>>, Bool(~already_running))
    /\ UNCHANGED <<catalogVars, spawned, configVars, common_phrases, now, counterVars,
                   groupmeVars>>

\* A stop_polling that also cancels the batches in flight.
stop_polling_cancels_batches(k) == batches[k].pc = "gather"

\* stop_polling, 48-49: only self.polling_task is cancelled, no batch.
stop_polling_cancels(k) == FALSE

\* stop_polling with the end of the loop it cancels, no other task running between
\* the two: the loop is suspended in its sleep (or has not started), so the
\* cancellation ends it.
StopPolling ==
    /\ IF ~running
       THEN UNCHANGED <<loopVars, batches>>
       ELSE /\ running' = FALSE
            /\ polling_task' = "cancelled"
            /\ loop_tasks' = SubSeq(loop_tasks, 1, Len(loop_tasks) - 1)
            /\ batches' = [k \in DOMAIN batches |->
                              IF stop_polling_cancels(k)
                              THEN [batches[k] EXCEPT !.pc = "cancelled"]
                              ELSE batches[k]]
    /\ lastOp' = Op("stop_polling", <<>>, Bool(running))
    /\ UNCHANGED <<messages, spawned, configVars, common_phrases, now, counterVars,
                   groupmeVars>>

\* The sequence without its element t.
without(s, t) == SubSeq(s, 1, t - 1) \o SubSeq(s, t + 1, Len(s))

\* stop_polling up to its await (40-51): the flag is cleared, the task
\* self.polling_task refers to is cancelled, and the handler waits for it to end.
StopPollingAwaits ==
    /\ IF ~running
       THEN UNCHANGED loopVars
       ELSE /\ running' = FALSE
            /\ IF polling_task \in {"created", "sleeping"}
               THEN /\ polling_task' = "cancelling"
                    /\ loop_tasks' = [loop_tasks EXCEPT ![Len(loop_tasks)] = "cancelling"]
               ELSE UNCHANGED <<polling_task, loop_tasks>>
    /\ lastOp' = Op("stop_polling", <<>>, Bool(running))
    /\ UNCHANGED <<catalogVars, spawned, configVars, common_phrases, now, counterVars,
                   groupmeVars>>

\* A loop that catches its cancellation and goes on.
loop_after_cancel_continues == "live"

\* _polling_loop, 77-79: except asyncio.CancelledError: break.
loop_after_cancel == "ended"

\* The event loop resumes loop task t.  A cancelled task gets CancelledError where it
\* is suspended, in its sleep or before its first step, and ends; the stop_polling
\* that awaits it then returns.  Any other task tests self.running (61): it runs a
\* cycle and sleeps, or ends.
LoopResumes(t, request_ok, sample) ==
    /\ t \in DOMAIN loop_tasks
    /\ IF loop_tasks[t] = "cancelling"
       THEN /\ loop_tasks' = IF loop_after_cancel = "ended" THEN without(loop_tasks, t)
                             ELSE [loop_tasks EXCEPT ![t] = loop_after_cancel]
            /\ polling_task' = IF t = Len(loop_tasks) /\ polling_task = "cancelling"
                               THEN (IF loop_after_cancel = "ended" THEN "cancelled"
                                     ELSE "sleeping")
                               ELSE polling_task
            /\ lastOp' = Op("loop", <<t>>, loop_after_cancel)
            /\ UNCHANGED <<catalogVars, spawned, configVars, common_phrases, now,
                           counterVars, running, groupmeVars>>
       ELSE IF ~running
       THEN /\ loop_tasks' = without(loop_tasks, t)
            /\ polling_task' = IF t = Len(loop_tasks) /\ polling_task \in {"created", "sleeping"}
                               THEN "ended" ELSE polling_task
            /\ lastOp' = Op("loop", <<t>>, "ended")
            /\ UNCHANGED <<catalogVars, spawned, configVars, common_phrases, now,
                           counterVars, running, groupmeVars>>
       ELSE /\ spawned = <<>>
            /\ ~awaits_generation
            /\ _process_polling_cycle(request_ok, sample)
            /\ polling_task' = IF t = Len(loop_tasks) /\ polling_task \in {"created", "sleeping"}
                               THEN polling_task_after_cycle(bot_group_id = None \/ ~request_ok)
                               ELSE polling_task
            /\ lastOp' = Op("loop", <<t>>, "cycle")
            /\ UNCHANGED loop_tasks

(* ---------------- MessageManager.cleanup_old_messages ---------------- *)
\* A cleanup that keeps the entity made exactly at the cutoff.
kept_by_cleanup_at_cutoff(msg, days) == msg.id >= now - days * DayLen

\* cleanup_old_messages, 313-314: msg.timestamp > cutoff_time.  The timestamp is the
\* clock at construction (26), as the id is (21).
kept_by_cleanup(msg, days) == msg.id > now - days * DayLen

\* cleanup_old_messages (311-314): the catalog is replaced by the list of its
\* entities made after the cutoff, in their order.  The coroutine of an entity
\* goes with it here.
CleanupOldMessages(days) ==
    /\ LET pairs == [k \in DOMAIN messages |-> [msg |-> messages[k], batch |-> batches[k]]]
           kept == SelectSeq(pairs, LAMBDA pair : kept_by_cleanup(pair.msg, days))
       IN /\ messages' = [i \in DOMAIN kept |-> kept[i].msg]
          /\ batches' = [i \in DOMAIN kept |-> kept[i].batch]
    /\ lastOp' = Op("cleanup", <<days>>, None)
    /\ UNCHANGED <<spawned, configVars, common_phrases, now, counterVars, loopVars,
                   groupmeVars>>

(* ---------------- the system after construction ---------------- *)
\* BotController() has run: an empty catalog, the counters reset, the loop not started,
\* the cursor at 0, the configuration and the phrases as loaded, the group from BOT_GROUP_ID.
Constructed(cfg, file, phrases, group) ==
    /\ messages = <<>>
    /\ batches = <<>>
    /\ spawned = <<>>
    /\ config = cfg
    /\ config_file = file
    /\ common_phrases = phrases
    /\ now = 1
    /\ messages_per_day = 0
    /\ last_random_message_time = now
    /\ running = FALSE
    /\ polling_task = None
    /\ loop_tasks = <<>>
    /\ bot_group_id = group
    /\ last_message_time = 0
    /\ group_messages = <<>>
    /\ sent_log = <<>>
    /\ polls = [count |-> 0, preexisting |-> {}, ret |-> <<>>, raised |-> FALSE,
                evaluations |-> 0, slept |-> 0, reset_at |-> now, in_flight |-> FALSE,
                config |-> cfg]
    /\ lastOp = NoOp

\* Message ids an operator may name: those in the catalog, and 0, which is never issued.
MessageIds == {0} \cup {messages[k].id : k \in DOMAIN messages}
\* Indexes an operator may name: below, inside and above a batch of two candidates.
OptionIndexes == -1..2

(* ---------------- the catalog under the operator's actions ---------------- *)
CatalogConfig == [DefaultConfig EXCEPT !.message_generation_tries = 2]

\* The clock is read only when an entry is made (its id): it is followed while entries
\* can still be made.
InitCatalog == Constructed(CatalogConfig, <<CatalogConfig>>, <<"natty">>, GroupId)

NextCatalog ==
    \/ Len(messages) < MaxMessages /\ GenerateManualMessage
    \/ \E k \in 1..MaxMessages, i \in 1..2 :
           \E outcome \in Outcomes : AttemptResolve(k, i, outcome)
    \/ \E k \in 1..MaxMessages : BatchComplete(k)
    \/ \E message_id \in MessageIds, option_index \in OptionIndexes :
           SelectMessageOption(message_id, option_index)
    \/ Len(sent_log) < MaxSends /\ \E message_id \in MessageIds, request_ok \in BOOLEAN :
           SendSelectedMessage(message_id, request_ok)
    \/ \E message_id \in MessageIds : DeleteMessage(message_id)
    \/ now < MaxTime /\ Len(messages) < MaxMessages /\ Tick

SpecCatalog == InitCatalog /\ [][NextCatalog]_vars

(* ---------------- the polling loop ---------------- *)
PollConfig == [DefaultConfig EXCEPT !.message_generation_tries = 1]

\* No generation call resolves here, so the phrases loaded do not matter.
InitPoll ==
    \E group \in {None, GroupId} :
        Constructed(PollConfig, <<PollConfig>>, <<"natty">>, group)

NextPoll ==
    \/ StartPolling
    \/ StopPolling
    \/ \E request_ok \in BOOLEAN, sample \in Samples : PollingCycle(request_ok, sample)
    \/ Len(messages) < MaxReplies /\ \E sample \in Samples : StartTask(sample)
    \/ Len(group_messages) < MaxGroupMsgs /\ \E user_id \in UserIds :
           PostMessage(user_id, Hi, 0)
    \/ now < MaxTime /\ Tick
    \/ SetBotServer(GroupId)

SpecPoll == InitPoll /\ [][NextPoll]_vars

(* ---------------- batches, call by call ---------------- *)
\* The group as a second polling cycle found it: one message from before the start,
\* one posted since.
OldMessage == [id |-> "m1", text |-> Hi, user_id |-> "u1", created_at |-> 1, likes |-> 0]
NewMessage == [id |-> "m2", text |-> Hi, user_id |-> "u1", created_at |-> 2, likes |-> 0]

\* The second cycle has just ended and the loop sleeps: the reply task for the new
\* message, and a random task when the trigger fired, have been created and not started.
InitBatch ==
    /\ messages = <<>>
    /\ batches = <<>>
    /\ spawned \in {<<reply_task(message_info(NewMessage))>>,
                    <<reply_task(message_info(NewMessage)), random_task>>}
    /\ config = [DefaultConfig EXCEPT !.message_generation_tries = MaxTries]
    /\ config_file = <<config>>
    /\ common_phrases \in PhraseFiles
    /\ now = 2
    /\ messages_per_day = 0
    /\ last_random_message_time = 1
    /\ running = TRUE
    /\ polling_task = "sleeping"
    /\ loop_tasks = <<"live">>
    /\ bot_group_id = GroupId
    /\ last_message_time = 2
    /\ group_messages = <<OldMessage, NewMessage>>
    /\ sent_log = <<>>
    /\ polls = [count |-> 2, preexisting |-> {"m1"},
                ret |-> <<message_info(NewMessage)>>, raised |-> FALSE,
                evaluations |-> 1, slept |-> sleep_seconds(FALSE), reset_at |-> 1,
                in_flight |-> FALSE, config |-> config]
    /\ lastOp = NoOp

NextBatch ==
    \/ Len(messages) < MaxBatches /\ \E sample \in Samples : StartTask(sample)
    \/ Len(messages) < MaxBatches /\ GenerateManualMessage
    \/ Len(messages) < MaxBatches /\ GenerateIntroductionMessage
    \/ \E k \in 1..MaxBatches, i \in 1..MaxTries :
           \E outcome \in Outcomes : AttemptResolve(k, i, outcome)
    \/ \E k \in 1..MaxBatches : BatchComplete(k)
    \/ \E t \in {1, MaxTries} : UpdateConfig([message_generation_tries |-> t])

SpecBatch == InitBatch /\ [][NextBatch]_vars

(* ---------------- the configuration ---------------- *)
\* The documents config.json may hold at start, or no file: load_config's defaults.
InitConfig ==
    \/ Constructed(DefaultConfig, <<>>, <<"natty">>, GroupId)
    \/ \E c \in ConfigDocs : Constructed(c, <<c>>, <<"natty">>, GroupId)

\* Documents POSTed to /api/config.
ConfigPosts ==
    {[polling_interval_seconds |-> p] : p \in {-5, 0, 1, 60, 3600, 3601}}
    \cup {[polling_interval_seconds |-> p, message_generation_tries |-> t,
           minimum_reply_chance |-> 500] : p \in {0, 60, 3601}, t \in {1, 4}}
    \cup {[message_generation_tries |-> t] : t \in 0..MaxTries}
    \cup {[random_messages_per_day |-> r, reply_chance_per_like |-> 0] : r \in {5, 24}}

NextConfig == \E new_config \in ConfigPosts : UpdateConfig(new_config)

SpecConfig == InitConfig /\ [][NextConfig]_vars

(* ---------------- the configuration and its file ---------------- *)
\* Documents POSTed to /api/config while the file is, or is not, writable.
SavePosts ==
    {[message_generation_tries |-> t] : t \in 0..MaxTries}
    \cup {[polling_interval_seconds |-> p] : p \in {0, 60}}

NextSave ==
    \/ \E new_config \in SavePosts : UpdateConfig(new_config)
    \/ \E new_config \in SavePosts : UpdateConfigUnwritable(new_config)

SpecSave == InitConfig /\ [][NextSave]_vars

(* ---------------- the loop with its batches, under fair scheduling ---------------- *)
\* The loop in an empty group: every batch is a random one, of one call.
InitLoop == Constructed(PollConfig, <<PollConfig>>, <<"natty">>, GroupId)

\* random.random() in a cycle; once the catalog is full only samples that do not fire
\* the trigger.
LoopSamples == IF Len(messages) < MaxLoopBatches THEN Samples ELSE {999}

NextLoop ==
    \/ StartPolling
    \/ StopPolling
    \/ \E request_ok \in BOOLEAN, sample \in LoopSamples : PollingCycle(request_ok, sample)
    \/ \E sample \in Samples : StartTask(sample)
    \/ \E k \in 1..MaxLoopBatches : \E outcome \in Outcomes : AttemptResolve(k, 1, outcome)
    \/ \E k \in 1..MaxLoopBatches : BatchComplete(k)
    \/ now < MaxLoopTime /\ Tick

\* The event loop runs every task that is ready: the loop's sleep ends, a created task
\* starts, a coroutine whose gather is done continues; and every backend call returns
\* or raises.
FairLoop ==
    /\ WF_vars(\E request_ok \in BOOLEAN, sample \in LoopSamples :
                   PollingCycle(request_ok, sample))
    /\ WF_vars(\E sample \in Samples : StartTask(sample))
    /\ WF_vars(\E k \in 1..MaxLoopBatches :
                   \E outcome \in Outcomes : AttemptResolve(k, 1, outcome))
    /\ WF_vars(\E k \in 1..MaxLoopBatches : BatchComplete(k))

SpecLoop == InitLoop /\ [][NextLoop]_vars /\ FairLoop

\* The same, where backend calls may never return: only the loop's sleep ending and
\* the start of created tasks are taken for granted.
FairStall ==
    /\ WF_vars(\E request_ok \in BOOLEAN, sample \in LoopSamples :
                   PollingCycle(request_ok, sample))
    /\ WF_vars(\E sample \in Samples : StartTask(sample))

SpecStall == InitLoop /\ [][NextLoop]_vars /\ FairStall

(* ---------------- start and stop, with the cancelled loop's end as a step ---------------- *)
\* The loop in an empty group, started and stopped in any order; a start may come
\* while a stop still waits for the loop it cancelled.  The sample never fires the
\* random trigger, so no batch is made.
NextStartStop ==
    \/ Len(loop_tasks) < MaxLoops /\ StartPolling
    \/ StopPollingAwaits
    \/ \E t \in 1..MaxLoops, request_ok \in BOOLEAN : LoopResumes(t, request_ok, 999)
    \/ now < MaxStartStopTime /\ Tick

SpecStartStop == InitLoop /\ [][NextStartStop]_vars

(* ---------------- the catalog with cleanup_old_messages ---------------- *)
CleanupDays == {0, 1}

\* The operator's actions on batches of one call, and cleanup_old_messages, which
\* nothing in the program calls, as a caller of MessageManager could use it: between
\* batches, when no coroutine holds an entity.
NextCleanup ==
    \/ Len(messages) < MaxCleanupMessages /\ GenerateManualMessage
    \/ \E k \in 1..MaxCleanupMessages :
           \E outcome \in Outcomes : AttemptResolve(k, 1, outcome)
    \/ \E k \in 1..MaxCleanupMessages : BatchComplete(k)
    \/ \E message_id \in MessageIds : SelectMessageOption(message_id, 0)
    \/ Len(sent_log) < MaxCleanupSends /\ \E message_id \in MessageIds :
           SendSelectedMessage(message_id, TRUE)
    \/ \E message_id \in MessageIds : DeleteMessage(message_id)
    \/ now < MaxCleanupTime /\ Tick
    \/ get_generating_messages_count = 0 /\ \E days \in CleanupDays :
           CleanupOldMessages(days)

SpecCleanup == InitLoop /\ [][NextCleanup]_vars

(* ---------------- batches of the API, under fair scheduling ---------------- *)
\* Manual and introduction batches of two calls each, launched while others wait.
NextInFlight ==
    \/ Len(messages) < MaxInFlight /\ GenerateManualMessage
    \/ Len(messages) < MaxInFlight /\ GenerateIntroductionMessage
    \/ \E k \in 1..MaxInFlight, i \in 1..2 :
           \E outcome \in Outcomes : AttemptResolve(k, i, outcome)
    \/ \E k \in 1..MaxInFlight : BatchComplete(k)

\* Every backend call returns or raises, and the event loop continues every coroutine
\* whose gather is done.
FairInFlight ==
    /\ \A k \in 1..MaxInFlight, i \in 1..2 :
           WF_vars(\E outcome \in Outcomes : AttemptResolve(k, i, outcome))
    /\ \A k \in 1..MaxInFlight : WF_vars(BatchComplete(k))

SpecInFlight == InitCatalog /\ [][NextInFlight]_vars /\ FairInFlight

(* ---------------- the daily counter ---------------- *)
\* random.random() in a cycle; once the catalog is full only samples that do not fire
\* the trigger.
DailySamples == IF Len(messages) < MaxDailyBatches THEN Samples ELSE {999}

\* The running loop in a group where a member posts and every fetch succeeds, with the
\* two generation requests of the API: batches of all four kinds start and complete.
NextDaily ==
    \/ StartPolling
    \/ \E sample \in DailySamples : PollingCycle(TRUE, sample)
    \/ Len(group_messages) < MaxDailyPosts /\ PostMessage("u1", Hi, 0)
    \/ Len(messages) < MaxDailyBatches /\ \E sample \in Samples : StartTask(sample)
    \/ Len(messages) < MaxDailyBatches /\ GenerateManualMessage
    \/ Len(messages) < MaxDailyBatches /\ GenerateIntroductionMessage
    \/ \E k \in 1..MaxDailyBatches : \E outcome \in Outcomes : AttemptResolve(k, 1, outcome)
    \/ \E k \in 1..MaxDailyBatches : BatchComplete(k)
    \/ now < MaxDailyTime /\ Tick

SpecDaily == InitLoop /\ [][NextDaily]_vars

(* ---------------- batches in flight together ---------------- *)
\* random.random() in a cycle; once the catalog is full only samples that do not fire
\* the trigger.
ConcurrentSamples ==
    IF Len(messages) + Len(spawned) < MaxConcurrent THEN Samples ELSE {999}

\* Within one day: cycles launch random batches and the API launches manual ones while
\* earlier batches are still waiting for their calls; they complete in any order.
NextConcurrent ==
    \/ StartPolling
    \/ \E sample \in ConcurrentSamples : PollingCycle(TRUE, sample)
    \/ \E sample \in Samples : StartTask(sample)
    \/ Len(messages) + Len(spawned) < MaxConcurrent /\ GenerateManualMessage
    \/ \E k \in 1..MaxConcurrent : \E outcome \in Outcomes : AttemptResolve(k, 1, outcome)
    \/ \E k \in 1..MaxConcurrent : BatchComplete(k)

SpecConcurrent == InitLoop /\ [][NextConcurrent]_vars

(* ---------------- the two triggers ---------------- *)
\* Configurations an operator may have saved: few, exactly as many, and more random
\* messages per day than there are cycles in a day; a low and a high minimum chance.
TriggerConfigs ==
    {[PollConfig EXCEPT !.random_messages_per_day = r, !.minimum_reply_chance = m] :
        r \in {5, 720, 1440}, m \in {10, 500}}

\* What the new message of the cycle says and how many members liked it.
TriggerTexts == IncomingTexts \cup {keller}
TriggerLikes == {0, 1, 4}

\* The second cycle has just ended and the loop sleeps; it fetched one new message and
\* created the reply task for it, and its random trigger did not fire.
InitTriggers ==
    \E cfg \in TriggerConfigs, text \in TriggerTexts, likes \in TriggerLikes :
        /\ messages = <<>>
        /\ batches = <<>>
        /\ group_messages = <<OldMessage, [NewMessage EXCEPT !.text = text, !.likes = likes]>>
        /\ spawned = <<reply_task(message_info(group_messages[2]))>>
        /\ config = cfg
        /\ config_file = <<cfg>>
        /\ common_phrases = <<"natty">>
        /\ now = 2
        /\ messages_per_day = 0
        /\ last_random_message_time = 1
        /\ running = TRUE
        /\ polling_task = "sleeping"
        /\ loop_tasks = <<"live">>
        /\ bot_group_id = GroupId
        /\ last_message_time = 2
        /\ sent_log = <<>>
        /\ polls = [count |-> 2, preexisting |-> {"m1"},
                    ret |-> <<message_info(group_messages[2])>>, raised |-> FALSE,
                    evaluations |-> 1, slept |-> cfg["polling_interval_seconds"],
                    reset_at |-> 1, in_flight |-> FALSE, config |-> cfg]
        /\ lastOp = NoOp

\* The reply task decides, later cycles evaluate the random trigger, and the batches
\* they launch run to their end.
NextTriggers ==
    \/ \E sample \in Samples : StartTask(sample)
    \/ Len(messages) + Len(spawned) < MaxTriggerBatches
           /\ \E sample \in Samples : PollingCycle(TRUE, sample)
    \/ \E k \in 1..MaxTriggerBatches : \E outcome \in Outcomes : AttemptResolve(k, 1, outcome)
    \/ \E k \in 1..MaxTriggerBatches : BatchComplete(k)

SpecTriggers == InitTriggers /\ [][NextTriggers]_vars

(* ---------------- the reply decisions of one cycle ---------------- *)
\* The first poll has been made in a group that held one message of another member: the
\* cursor stands at that message and the loop sleeps.
InitOrder ==
    /\ messages = <<>>
    /\ batches = <<>>
    /\ spawned = <<>>
    /\ config = PollConfig
    /\ config_file = <<PollConfig>>
    /\ common_phrases = <<"natty">>
    /\ now = 2
    /\ messages_per_day = 0
    /\ last_random_message_time = 1
    /\ running = TRUE
    /\ polling_task = "sleeping"
    /\ loop_tasks = <<"live">>
    /\ bot_group_id = GroupId
    /\ last_message_time = 1
    /\ group_messages = <<OldMessage>>
    /\ sent_log = <<>>
    /\ polls = [count |-> 1, preexisting |-> {"m1"}, ret |-> <<>>, raised |-> FALSE,
                evaluations |-> 1, slept |-> PollConfig["polling_interval_seconds"],
                reset_at |-> 1, in_flight |-> FALSE, config |-> PollConfig]
    /\ lastOp = NoOp

\* Members and the bot's own account post, liked or not; the next cycle fetches what they posted and creates the
\* reply tasks; the tasks start and their batches complete in any order.
NextOrder ==
    \/ Len(group_messages) < 1 + MaxOrderPosts
           /\ \E user_id \in UserIds, likes \in LikeCounts : PostMessage(user_id, Hi, likes)
    \/ Len(messages) < MaxOrderBatches /\ \E sample \in Samples : PollingCycle(TRUE, sample)
    \/ Len(messages) < MaxOrderBatches /\ \E sample \in Samples : StartTask(sample)
    \/ \E k \in 1..MaxOrderBatches : \E outcome \in Outcomes : AttemptResolve(k, 1, outcome)
    \/ \E k \in 1..MaxOrderBatches : BatchComplete(k)

SpecOrder == InitOrder /\ [][NextOrder]_vars

(* ---------------- the tasks of one cycle ---------------- *)
\* The tasks a cycle created start one after the other on the event loop; each runs to
\* its await without yielding, and the clock may or may not advance in between.
NextCycleTasks ==
    \/ Len(messages) < MaxCycleTasks /\ \E sample \in Samples : StartTask(sample)
    \/ \E k \in 1..MaxCycleTasks, i \in 1..MaxTries :
           \E outcome \in Outcomes : AttemptResolve(k, i, outcome)
    \/ \E k \in 1..MaxCycleTasks : BatchComplete(k)
    \/ now < MaxCycleTime /\ Tick

SpecCycleTasks == InitBatch /\ [][NextCycleTasks]_vars

(* ---------------- properties of a batch (SpecBatch) ---------------- *)
\* The batch of entry k ends in this step: its generating flag goes from true to false.
Flips(k) == messages[k].generating /\ ~messages'[k].generating

\* What the result loop appends for one resolved call.
candidate(message_type, task) ==
    IF task.raised THEN ErrorMsg(message_type, task.val) ELSE task.val

\* C1: a batch of any of the four kinds launched with width >= 1 has exactly width
\* candidates once its generating flag is false, whichever of its calls succeeded or
\* failed.
C1_WidthCandidates ==
    \A k \in DOMAIN messages :
        (~messages[k].generating /\ batches[k].width >= 1)
            => Len(messages[k].generated_messages) = batches[k].width

\* A finished batch of width 2 or more whose calls all failed.
C1_Witness ==
    \E k \in DOMAIN messages :
        /\ ~messages[k].generating
        /\ batches[k].width >= 2
        /\ \A i \in DOMAIN messages[k].generated_messages :
               messages[k].generated_messages[i] \in ErrorMarkers

C9_FailuresVisible ==
    [][\A k \in DOMAIN messages :
           Flips(k) =>
               \A i \in DOMAIN batches[k].tasks :
                   /\ i \in DOMAIN messages'[k].generated_messages
                   /\ batches[k].tasks[i].backend = "failed"
                          => messages'[k].generated_messages[i] \in ErrorMarkers
                   /\ batches[k].tasks[i].backend = "ok"
                          => messages'[k].generated_messages[i] = batches[k].tasks[i].val
      ]_vars

\* C10: the generating flag goes from true to false only when every one of the width
\* calls of the batch has resolved, and once false it stays false.
C10_AllResolved ==
    [][\A k \in DOMAIN messages :
           /\ Flips(k) => /\ Len(batches[k].tasks) = batches[k].width
                          /\ \A i \in DOMAIN batches[k].tasks : batches[k].tasks[i].done
           /\ ~messages[k].generating => ~messages'[k].generating
      ]_vars

\* A batch of width 2 or more has finished, its calls having resolved out of launch
\* order (so the last step before the flip was not the last call launched).
C10_Witness ==
    \E k \in DOMAIN messages :
        /\ ~messages[k].generating
        /\ batches[k].width >= 2
        /\ batches[k].pc = "done"
        /\ ~batches[k].in_launch_order

\* C31: a batch issues exactly width calls: while it waits it has width calls, each
\* issued once when resolved and not at all before; a resolved call, failed or not, is
\* never issued again, and no call is added to or taken from the batch after its launch.
C31_ExactlyWidthCalls ==
    [][\A k \in DOMAIN batches :
           /\ batches[k].pc = "gather" =>
                  /\ Len(batches[k].tasks) = batches[k].width
                  /\ \A i \in DOMAIN batches[k].tasks :
                         batches[k].tasks[i].calls = IF batches[k].tasks[i].done THEN 1 ELSE 0
           /\ (batches[k].pc = "gather" /\ batches'[k].pc = "gather") =>
                  /\ Len(batches'[k].tasks) = Len(batches[k].tasks)
                  /\ \A i \in DOMAIN batches[k].tasks :
                         batches[k].tasks[i].done => batches'[k].tasks[i] = batches[k].tasks[i]
           /\ batches[k].pc = "done" => batches'[k] = batches[k]
      ]_vars

\* A batch of width 2 or more waits for its last call after another of its calls has
\* failed.
C31_Witness ==
    \E k \in DOMAIN batches :
        /\ batches[k].pc = "gather"
        /\ batches[k].width >= 2
        /\ \E i, j \in DOMAIN batches[k].tasks :
               /\ batches[k].tasks[i].done
               /\ batches[k].tasks[i].backend # "ok"
               /\ ~batches[k].tasks[j].done

\* C34: an entity whose generating flag is true has no candidates, and the candidate
\* list changes only in the step in which the flag goes from true to false: the
\* candidates of a batch appear all together, never one by one.
C34_NoPartialCandidates ==
    [][/\ \A k \in DOMAIN messages' :
              messages'[k].generating => messages'[k].generated_messages = <<>>
       /\ \A k \in DOMAIN messages :
              /\ messages[k].generating => messages[k].generated_messages = <<>>
              /\ messages'[k].generated_messages # messages[k].generated_messages
                     => /\ Flips(k)
                        /\ Len(messages'[k].generated_messages) = batches[k].width
      ]_vars

\* A batch of width 2 or more waits for its last call after another of its calls has
\* returned a text, and its entity shows no candidate yet.
C34_Witness ==
    \E k \in DOMAIN messages :
        /\ messages[k].generating
        /\ messages[k].generated_messages = <<>>
        /\ batches[k].width >= 2
        /\ \E i, j \in DOMAIN batches[k].tasks :
               /\ batches[k].tasks[i].done
               /\ batches[k].tasks[i].backend = "ok"
               /\ ~batches[k].tasks[j].done

\* C11: while a batch waits for its calls, from before the first of them resolves,
\* its entity is in the catalog with generating true, is in the pending list, and is
\* counted by get_generating_messages_count.
C11_RegisteredInFlight ==
    /\ \A k \in DOMAIN batches :
           batches[k].pc = "gather" =>
               /\ k \in DOMAIN messages
               /\ messages[k].generating
               /\ \E i \in DOMAIN get_pending_messages :
                      get_pending_messages[i] = messages[k]
    /\ get_generating_messages_count =
           Cardinality({k \in DOMAIN batches : batches[k].pc = "gather"})

\* A batch of width 2 or more none of whose calls has resolved; its entity is counted.
C11_Witness ==
    \E k \in DOMAIN batches :
        /\ batches[k].pc = "gather"
        /\ batches[k].width >= 2
        /\ \A i \in DOMAIN batches[k].tasks : ~batches[k].tasks[i].done
        /\ get_generating_messages_count = 1
        /\ Len(get_pending_messages) = 1

\* C22: the batches a cycle launches (reply and random) are as wide as the
\* message_generation_tries in force when that cycle started.
C22_CycleConfig ==
    \A k \in DOMAIN batches :
        messages[k].message_type \in {"reply", "random"}
            => batches[k].width = polls.config["message_generation_tries"]

(* ---------------- properties of batches in flight together (SpecConcurrent) -------- *)
\* The random batches that have completed.
completed_random ==
    {k \in DOMAIN batches : messages[k].message_type = "random" /\ batches[k].pc = "done"}

\* C23: whatever the interleaving of the batches, the catalog holds one entry for every
\* batch launched, and within a day messages_per_day is the number of random batches
\* that have completed.
C23_NoLostUpdate ==
    /\ Len(messages) = Len(batches)
    /\ \A k \in DOMAIN batches : messages[k].generating <=> batches[k].pc = "gather"
    /\ messages_per_day = Cardinality(completed_random)

\* Two random batches were in flight together; one has completed and is counted, the
\* other has its call resolved and is about to complete.
C23_Witness ==
    /\ Len(messages) = 2
    /\ \A k \in 1..2 : messages[k].message_type = "random"
    /\ \E j, k \in 1..2 :
           /\ batches[j].pc = "done"
           /\ batches[k].pc = "gather" /\ gather_ready(batches[k].tasks)
    /\ messages_per_day = 1

(* ---------------- properties of the two triggers (SpecTriggers) ---------------- *)
\* str.lower() on the letters of the keyword.
Lower(text) ==
    [i \in DOMAIN text |->
        CASE text[i] = "K" -> "k" [] text[i] = "E" -> "e" [] text[i] = "L" -> "l"
          [] text[i] = "R" -> "r" [] OTHER -> text[i]]

\* The text contains the keyword in some letter case.
mentions_keyword(text) == Contains(Lower(text), keller)

\* The step launched a batch.
Launches == Len(messages') = Len(messages) + 1

\* C24: the reply task of a message that contains the keyword in any letter case
\* launches its batch, whatever the likes, the minimum chance and the sample.
C24_KeywordAlwaysReplies ==
    [][\A sample \in Samples :
           (/\ StartTask(sample)
            /\ Head(spawned).fn = "reply"
            /\ mentions_keyword(Head(spawned).original_message))
               => Launches]_vars

\* C25: the reply task of a message without the keyword launches its batch exactly
\* when sample <= max(min(reply_chance_per_like * likes, 1), minimum_reply_chance);
\* with no likes that is minimum_reply_chance.
C25_ReplyThreshold ==
    [][\A sample \in Samples :
           (/\ StartTask(sample)
            /\ Head(spawned).fn = "reply"
            /\ ~mentions_keyword(Head(spawned).original_message))
               => /\ Launches <=>
                        sample <= Max(Min(config["reply_chance_per_like"]
                                              * Head(spawned).likes, 1000),
                                      config["minimum_reply_chance"])
                  /\ Head(spawned).likes = 0 =>
                        (Launches <=> sample <= config["minimum_reply_chance"])]_vars

\* A message without the keyword and without likes got its reply batch under a
\* minimum chance of one half: the sample was at most that.
C25_Witness ==
    /\ ~mentions_keyword(group_messages[2].text)
    /\ group_messages[2].likes = 0
    /\ config["minimum_reply_chance"] = 500
    /\ \E k \in DOMAIN messages :
           messages[k].message_type = "reply" /\ messages[k].reply_to_id = "m2"

\* C26: with random_messages_per_day at or above the number of cycles in a day, every
\* cycle whose fetch succeeds creates the random task, whatever the sample.
C26_SaturatedAlwaysFires ==
    [][(/\ polls' # polls
        /\ ~polls'.raised
        /\ config["random_messages_per_day"] * config["polling_interval_seconds"]
               >= SecondsPerDay)
          => Len(random_tasks') = 1]_vars

\* A cycle ran with exactly as many random messages per day as cycles in a day, and
\* created the random task.
C26_Witness ==
    /\ polls.count = 3
    /\ config["random_messages_per_day"] * config["polling_interval_seconds"] = SecondsPerDay
    /\ Len(random_tasks) = 1

(* ---------------- properties of the reply decisions (SpecOrder) ---------------- *)
\* C28: a cycle creates the reply tasks in the order in which the poll returned the
\* messages, and the tasks take their decisions in that order: the task that decides
\* is the oldest one created, and the batch it launches replies to that task's message.
C28_DecisionsInPollOrder ==
    [][/\ (polls' # polls /\ ~polls'.raised) =>
              /\ Len(spawned') >= Len(polls'.ret)
              /\ \A i \in DOMAIN polls'.ret : spawned'[i] = reply_task(polls'.ret[i])
       /\ (polls' = polls /\ spawned' # spawned) =>
              /\ spawned # <<>>
              /\ spawned' = Tail(spawned)
              /\ Launches =>
                    /\ messages'[Len(messages')].message_type = Head(spawned).fn
                    /\ messages'[Len(messages')].reply_to_id = Head(spawned).reply_to_id
      ]_vars

\* One poll returned two messages; both reply batches were launched, in the order of
\* the poll, and the second has completed while the first still waits for its call.
C28_Witness ==
    /\ Len(polls.ret) = 2
    /\ Len(messages) = 2
    /\ \A k \in 1..2 : /\ messages[k].message_type = "reply"
                       /\ messages[k].reply_to_id = polls.ret[k].id
    /\ batches[1].pc = "gather"
    /\ batches[2].pc = "done"

\* The messages in the group that the bot's own account posted.
own_messages ==
    {group_messages[i].id : i \in {j \in DOMAIN group_messages :
                                      group_messages[j].user_id = current_user_id}}

\* C29: no poll returns a message of the bot's own account, and no reply task and no
\* reply entity refers to such a message.
C29_NoOwnMessages ==
    /\ \A i \in DOMAIN polls.ret : polls.ret[i].id \notin own_messages
    /\ \A i \in DOMAIN spawned : spawned[i].reply_to_id \notin own_messages
    /\ \A k \in DOMAIN messages : messages[k].reply_to_id \notin own_messages

\* After the first poll the bot's account posted and then a member did; one poll found
\* both newer than the cursor and returned only the member's message, which got its
\* reply entity.
C29_Witness ==
    /\ Len(group_messages) = 3
    /\ group_messages[2].user_id = current_user_id
    /\ group_messages[3].user_id # current_user_id
    /\ polls.ret = <<message_info(group_messages[3])>>
    /\ \E k \in DOMAIN messages : messages[k].reply_to_id = group_messages[3].id

(* ---------------- properties of the catalog (SpecCatalog) ---------------- *)
\* C2: no entity is ever both sent and deleted.
C2_SentDeletedExclusive ==
    \A k \in DOMAIN messages : ~(messages[k].sent /\ messages[k].deleted)

\* C3: a sent or deleted entity is not generating.
C3_TerminalNotGenerating ==
    \A k \in DOMAIN messages :
        (messages[k].sent \/ messages[k].deleted) => ~messages[k].generating

\* C4: a sent entity has a selected text; a send (a step whose lastOp is the send
\* handler's) on an entity without a selection answers failure, delivers nothing and
\* leaves the entity as it was.
C4_SentHasSelection ==
    [][/\ \A k \in DOMAIN messages' :
              messages'[k].sent => ~Falsy(messages'[k].selected_message)
       /\ lastOp'.op = "send" =>
              LET k == get_message_by_id(lastOp'.args[1]) IN
              (k # 0 /\ Falsy(messages[k].selected_message))
                  => /\ lastOp'.ret = "False"
                     /\ UNCHANGED <<messages, sent_log>>
      ]_vars

\* A send was refused for an entity that has candidates and no selection.
C4_Witness ==
    /\ lastOp.op = "send"
    /\ lastOp.ret = "False"
    /\ LET k == get_message_by_id(lastOp.args[1]) IN
       /\ k # 0
       /\ messages[k].generated_messages # <<>>
       /\ messages[k].selected_message = None
       /\ ~messages[k].sent
    /\ sent_log = <<>>

\* C5: select (a step whose lastOp is the select handler's) with an index outside 0 .. len(candidates)-1 answers failure and leaves
\* the entity as it was; with an index inside it sets the selected text to that
\* candidate, changes nothing else and answers success.
C5_SelectInRange ==
    [][lastOp'.op = "select" =>
           LET option_index == lastOp'.args[2]
               k == get_message_by_id(lastOp'.args[1])
           IN k # 0 =>
               IF 0 <= option_index /\ option_index < Len(messages[k].generated_messages)
               THEN /\ lastOp'.ret = "True"
                    /\ messages' = [messages EXCEPT ![k].selected_message =
                           messages[k].generated_messages[option_index + 1]]
               ELSE /\ lastOp'.ret = "False"
                    /\ messages' = messages
      ]_vars

\* A select with a negative index was refused for an entity that has candidates and
\* an earlier selection, which it kept.
C5_Witness ==
    /\ lastOp.op = "select"
    /\ lastOp.ret = "False"
    /\ lastOp.args[2] < 0
    /\ LET k == get_message_by_id(lastOp.args[1]) IN
       /\ k # 0
       /\ messages[k].generated_messages # <<>>
       /\ messages[k].selected_message # None

\* C21: select, send and delete with an id that is not in the catalog answer failure
\* and change no entity, no counter and nothing at GroupMe.
C21_UnknownIdFails ==
    [][(/\ lastOp'.op \in {"select", "send", "delete"}
        /\ get_message_by_id(lastOp'.args[1]) = 0)
          => /\ lastOp'.ret = "False"
             /\ UNCHANGED <<messages, counterVars, sent_log>>]_vars

\* C32: sent and deleted are terminal: a send (a step whose lastOp is the send
\* handler's) on an entity that is already sent or deleted delivers nothing to the
\* group, so no entity is delivered twice and a deleted entity is never delivered.
C32_TerminalNeverDelivered ==
    [][lastOp'.op = "send" =>
           LET k == get_message_by_id(lastOp'.args[1]) IN
           (k # 0 /\ (messages[k].sent \/ messages[k].deleted))
               => sent_log' = sent_log
      ]_vars

\* C33: the sent flag of an entity becomes true only in a step in which GroupMe has
\* accepted the entity's selected text; a send whose request fails answers failure and
\* leaves every entity (sent, deleted, selection, candidates) and the group as they were.
C33_SentAfterDelivery ==
    [][/\ \A k \in DOMAIN messages :
              (~messages[k].sent /\ messages'[k].sent)
                  => /\ lastOp'.op = "send"
                     /\ lastOp'.ret = "True"
                     /\ k = get_message_by_id(lastOp'.args[1])
                     /\ sent_log' = Append(sent_log,
                            [text |-> messages[k].selected_message,
                             reply_to_id |-> messages[k].reply_to_id,
                             message |-> k])
       /\ (lastOp'.op = "send" /\ SendSelectedMessage(lastOp'.args[1], FALSE))
              => /\ lastOp'.ret = "False"
                 /\ messages' = messages
                 /\ sent_log' = sent_log
      ]_vars

\* A send was refused for an entity with a selection that could be delivered: the
\* request failed, and the entity is still unsent with its selection.
C33_Witness ==
    /\ lastOp.op = "send"
    /\ lastOp.ret = "False"
    /\ bot_group_id # None
    /\ sent_log = <<>>
    /\ LET k == get_message_by_id(lastOp.args[1]) IN
       /\ k # 0
       /\ messages[k].selected_message \notin BlankTexts \cup {None}
       /\ ~messages[k].sent
       /\ ~messages[k].deleted

\* C35: in every state a selected text that is not None is one of the entity's
\* candidates and the entity is not generating; a select (a step whose lastOp is the
\* select handler's) on an entity whose batch is still in flight answers failure and
\* leaves the entity as it was.
C35_SelectedIsCandidate ==
    [][/\ \A k \in DOMAIN messages' :
              messages'[k].selected_message # None
                  => /\ \E i \in DOMAIN messages'[k].generated_messages :
                            messages'[k].generated_messages[i] = messages'[k].selected_message
                     /\ ~messages'[k].generating
       /\ lastOp'.op = "select" =>
              LET k == get_message_by_id(lastOp'.args[1]) IN
              (k # 0 /\ messages[k].generating)
                  => /\ lastOp'.ret = "False"
                     /\ messages' = messages
      ]_vars

\* A select with index 0 was refused for an entity whose batch is in flight, one of
\* its calls having already returned a text.
C35_Witness ==
    /\ lastOp.op = "select"
    /\ lastOp.ret = "False"
    /\ lastOp.args[2] = 0
    /\ LET k == get_message_by_id(lastOp.args[1]) IN
       /\ k # 0
       /\ messages[k].generating
       /\ messages[k].selected_message = None
       /\ \E i \in DOMAIN batches[k].tasks : batches[k].tasks[i].done

C6_ColdStart ==
    /\ polls.count = 1 => polls.ret = <<>>
    /\ \A i \in DOMAIN polls.ret : polls.ret[i].id \notin polls.preexisting
    /\ \A i \in DOMAIN spawned : spawned[i].reply_to_id \notin polls.preexisting
    /\ \A k \in DOMAIN messages : messages[k].reply_to_id \notin polls.preexisting

\* The group held another member's message at the first poll; a later poll returned a
\* newer message, and a reply entity was made for it.
C6_Witness ==
    /\ polls.count = 2
    /\ \E i \in DOMAIN group_messages :
           /\ group_messages[i].id \in polls.preexisting
           /\ group_messages[i].user_id # current_user_id
    /\ \E k \in DOMAIN messages : messages[k].message_type = "reply"

\* C18: the entities of the catalog have pairwise distinct ids, those of one cycle's
\* batches included, so an id finds the entity it was issued for.
C18_DistinctIds ==
    \A j, k \in DOMAIN messages :
        /\ j # k => messages[j].id # messages[k].id
        /\ get_message_by_id(messages[k].id) = k

\* C37: while the group stays the same the cursor never decreases, in a poll or
\* between two polls; a poll whose fetch fails leaves it as it was; and every message
\* a poll returns is newer than the cursor before that poll and not newer than the
\* cursor after it, so that no later poll returns it again and it gets one reply
\* task only.
C37_CursorNeverDecreases ==
    [][/\ bot_group_id' = bot_group_id => last_message_time' >= last_message_time
       /\ (polls' # polls /\ polls'.raised) => last_message_time' = last_message_time
       /\ polls' # polls =>
              /\ \A j \in DOMAIN polls'.ret :
                     /\ polls'.ret[j].created_at > last_message_time
                     /\ polls'.ret[j].created_at <= last_message_time'
              /\ Len(SelectSeq(spawned', LAMBDA task : task.fn = "reply")) = Len(polls'.ret)
      ]_vars

(* ---------------- properties of the daily counter (SpecDaily) ---------------- *)
\* A polling cycle ran in this step and its random trigger fired.
Triggers ==
    /\ polls' # polls
    /\ \E i \in DOMAIN spawned' : spawned'[i].fn = "random"

\* A polling cycle ran in this step and found the day over.
Resets == polls' # polls /\ ~polls'.raised /\ new_day

C17_OncePerCycle ==
    /\ polls.count >= 1 => polls.evaluations = 1
    /\ Len(random_tasks) <= 1

\* C17, amended: in every cycle whose fetch succeeds the random trigger is evaluated
\* exactly once, however many messages were fetched; in a cycle whose fetch raises it
\* is not evaluated; and a cycle creates at most one random task.
C17_OncePerFetchedCycle ==
    /\ polls.count >= 1 => polls.evaluations = (IF polls.raised THEN 0 ELSE 1)
    /\ Len(random_tasks) <= 1

\* A cycle fetched a message, evaluated the trigger once, and created the reply task
\* and one random task.
C17_Witness ==
    /\ polls.count >= 2
    /\ ~polls.raised
    /\ Len(polls.ret) >= 1
    /\ polls.evaluations = 1
    /\ Len(spawned) = Len(polls.ret) + 1
    /\ Len(random_tasks) = 1

\* C27: a poll after the first one returns every message of another member that was
\* posted after the first poll and is newer than the cursor; the cursor never passes
\* such a message unreturned.
C27_LaterMessagesReturned ==
    [][(polls' # polls /\ polls.count >= 1)
          => \A i \in DOMAIN group_messages :
                 (/\ group_messages[i].id \notin polls.preexisting
                  /\ group_messages[i].user_id # current_user_id
                  /\ group_messages[i].created_at > last_message_time)
                     => \E j \in DOMAIN polls'.ret :
                            polls'.ret[j].id = group_messages[i].id]_vars

(* ---------------- properties of the configuration (SpecConfig) ---------------- *)
\* C7: an update whose polling_interval_seconds is below 1 or above 3600 raises, and
\* leaves the configuration in memory, every key of it, and the saved document as
\* they were.
C7_IntervalRejected ==
    [][\A new_config \in ConfigPosts :
           (/\ UpdateConfig(new_config)
            /\ "polling_interval_seconds" \in DOMAIN new_config
            /\ \/ new_config["polling_interval_seconds"] < 1
               \/ new_config["polling_interval_seconds"] > 3600)
               => /\ lastOp'.ret = "raised"
                  /\ UNCHANGED <<config, config_file>>
      ]_vars

\* An update with interval 3601 and other keys was refused, after an earlier update
\* had been accepted and saved; none of its keys was taken.
C7_Witness ==
    /\ lastOp.op = "update_config"
    /\ lastOp.ret = "raised"
    /\ lastOp.args[1]["polling_interval_seconds"] = 3601
    /\ "message_generation_tries" \in DOMAIN lastOp.args[1]
    /\ config["message_generation_tries"] # lastOp.args[1]["message_generation_tries"]
    /\ config["polling_interval_seconds"] = 3600
    /\ config_file = <<config>>

\* C30: after an update_config call, whether it returned or raised, the saved document
\* is the configuration in memory.
C30_PersistedEqualsMemory ==
    lastOp.op = "update_config" => config_file = <<config>>

(* ---------------- properties of start and stop (SpecStartStop) ---------------- *)
\* The loop tasks that can still run a cycle.
live_loops == {t \in DOMAIN loop_tasks : loop_tasks[t] = "live"}

\* C36: whatever the order of the start and stop calls, a start while a stop still
\* waits for the loop it cancelled included, at most one loop task can run cycles;
\* a cycle is run only by that one task; and a loop that a stop has cancelled ends
\* at its next step without a cycle and without making a task, and no step other
\* than a start adds a loop that can run cycles.
C36_OneLoop ==
    [][/\ Cardinality({t \in DOMAIN loop_tasks' : loop_tasks'[t] = "live"}) <= 1
       /\ lastOp'.op # "start_polling"
              => Cardinality({t \in DOMAIN loop_tasks' : loop_tasks'[t] = "live"})
                     <= Cardinality(live_loops)
       /\ lastOp'.op = "loop" =>
              LET t == lastOp'.args[1] IN
              /\ loop_tasks[t] = "cancelling"
                     => /\ lastOp'.ret = "ended"
                        /\ loop_tasks' = without(loop_tasks, t)
                        /\ UNCHANGED <<polls, spawned, last_message_time>>
              /\ lastOp'.ret = "cycle" => live_loops = {t}
      ]_vars

\* A loop cancelled by a stop has ended after a cycle of its own, while the loop of a
\* start issued during that stop's wait is the one loop left.
C36_Witness ==
    /\ lastOp.op = "loop"
    /\ lastOp.ret = "ended"
    /\ running
    /\ loop_tasks = <<"live">>
    /\ polling_task = "created"
    /\ polls.count >= 1

(* ---------------- properties of the batches in flight (SpecInFlight) ---------------- *)
\* C39 as stated: when every call returns or raises, every entity is eventually not
\* generating; and get_generating_messages_count is always the number of batches with
\* a call that has not resolved yet, and is 0 when no batch waits.
C39_CountsUnresolvedBatches ==
    /\ \A k \in 1..MaxInFlight :
           (k \in DOMAIN messages) ~> (k \in DOMAIN messages /\ ~messages[k].generating)
    /\ [](/\ get_generating_messages_count =
                 Cardinality({k \in DOMAIN batches :
                                 /\ batches[k].pc = "gather"
                                 /\ ~gather_ready(batches[k].tasks)})
          /\ (\A k \in DOMAIN batches : batches[k].pc # "gather")
                 => get_generating_messages_count = 0)

\* C39, amended: when every call returns or raises, every entity is eventually not
\* generating; and get_generating_messages_count is always the number of batches
\* whose coroutine has not yet continued after its gather: a batch whose calls have
\* all resolved is still counted until then, so the count is never below the number
\* of batches with an unresolved call, and it is 0 when no batch waits.
C39_CountsWaitingBatches ==
    /\ \A k \in 1..MaxInFlight :
           (k \in DOMAIN messages) ~> (k \in DOMAIN messages /\ ~messages[k].generating)
    /\ [](/\ get_generating_messages_count =
                 Cardinality({k \in DOMAIN batches : batches[k].pc = "gather"})
          /\ get_generating_messages_count >=
                 Cardinality({k \in DOMAIN batches :
                                 /\ batches[k].pc = "gather"
                                 /\ ~gather_ready(batches[k].tasks)})
          /\ (\A k \in DOMAIN batches : batches[k].pc # "gather")
                 => get_generating_messages_count = 0)

\* Both calls of a batch have resolved and its coroutine has not continued yet: the
\* entity is still counted, next to another batch that has ended.
C39_Witness ==
    \E k, j \in DOMAIN batches :
        /\ batches[k].pc = "gather"
        /\ batches[k].width = 2
        /\ gather_ready(batches[k].tasks)
        /\ messages[k].generating
        /\ batches[j].pc = "done"
        /\ get_generating_messages_count = 1

(* ---------------- properties of the loop and its batches (SpecLoop) ---------------- *)
\* C12: a batch that exists when the scheduler is stopped still runs to its end:
\* generating false and its width candidates in the catalog.
C12_BatchesSurviveStop ==
    \A k \in 1..MaxLoopBatches :
        (k \in DOMAIN batches /\ ~running)
            ~> (/\ k \in DOMAIN batches
                /\ batches[k].pc = "done"
                /\ ~messages[k].generating
                /\ Len(messages[k].generated_messages) = batches[k].width)

\* A batch made by a cycle of the running loop ended, with its candidate, when the
\* scheduler had been stopped.
C12_Witness ==
    \E k \in DOMAIN batches :
        /\ batches[k].pc = "done"
        /\ ~batches[k].completed_running
        /\ ~running
        /\ polling_task = "cancelled"
        /\ ~messages[k].generating
        /\ messages[k].generated_messages # <<>>

\* C13 (SpecStall): while the scheduler runs, whatever the count of cycles is, a
\* further cycle begins (or the scheduler is stopped), also when a batch launched
\* earlier never completes: the loop does not wait for batches.
C13_LoopNeverWaits ==
    \A c \in 0..3 :
        (running /\ polls.count = c) ~> (~running \/ polls.count # c)

\* The running loop is in its sleep after a cycle that ran while a batch was waiting
\* for its calls; the batch is still waiting, none of its calls resolved.
C13_Witness ==
    /\ running
    /\ polling_task = "sleeping"
    /\ polls.in_flight
    /\ \E k \in DOMAIN batches :
           /\ batches[k].pc = "gather"
           /\ \A i \in DOMAIN batches[k].tasks : ~batches[k].tasks[i].done

\* C14: start_polling while running changes nothing (the loop's task stays the one it
\* was) and answers nothing done; from stopped it yields running with a new loop.
\* stop_polling while stopped changes nothing; from running it yields stopped, the
\* loop cancelled.
C14_StartStopIdempotent ==
    [][/\ lastOp'.op = "start_polling" =>
              IF running
              THEN /\ lastOp'.ret = "False"
                   /\ UNCHANGED <<catalogVars, spawned, configVars, common_phrases, now,
                                  counterVars, loopVars, groupmeVars>>
              ELSE /\ lastOp'.ret = "True"
                   /\ running' /\ polling_task' = "created"
                   /\ UNCHANGED <<catalogVars, spawned, configVars, common_phrases, now,
                                  counterVars, groupmeVars>>
       /\ lastOp'.op = "stop_polling" =>
              IF ~running
              THEN /\ lastOp'.ret = "False"
                   /\ UNCHANGED <<catalogVars, spawned, configVars, common_phrases, now,
                                  counterVars, loopVars, groupmeVars>>
              ELSE /\ lastOp'.ret = "True"
                   /\ ~running' /\ polling_task' = "cancelled"
                   /\ UNCHANGED <<catalogVars, spawned, configVars, common_phrases, now,
                                  counterVars, groupmeVars>>
      ]_vars

\* start_polling was called while the loop was running and in its sleep: it answered
\* nothing done and the loop is still the sleeping one.
C14_Witness ==
    /\ lastOp.op = "start_polling"
    /\ lastOp.ret = "False"
    /\ running
    /\ polling_task = "sleeping"
    /\ polls.count >= 1

\* C15: after a cycle whose fetch raised, the loop sleeps the 60 seconds of recovery.
C15_RecoverySleep ==
    (polls.count >= 1 /\ polls.raised) => polls.slept = 60

\* C20: a cycle that evaluates the trigger a day or more after the last reset of the
\* daily counter leaves the counter at zero, whatever was counted in between.
C20_ResetAfterDay ==
    [][(polls' # polls /\ ~polls'.raised /\ now - polls.reset_at >= DayLen)
          => messages_per_day' = 0]_vars

\* C16: unless the scheduler is stopped again and again, cycles keep beginning for
\* ever, whatever fetches failed: no error ends the loop.
C16_LoopSurvives ==
    \/ []<>(~running)
    \/ ([]<>(polls.count = 2) /\ []<>(polls.count = 3))

\* The running loop is in its sleep after a cycle whose fetch failed, which was at
\* least its third cycle.
C16_Witness ==
    /\ running
    /\ polling_task = "sleeping"
    /\ polls.raised
    /\ polls.count = 3

====
